---- MODULE Spec2Model ----
(***************************************************************************)
(* The cooperative coroutine runtime of internal_workflow.go: channelImpl, *)
(* selectorImpl, futureImpl, coroutineState and dispatcherImpl.            *)
(*                                                                         *)
(* A coroutine is a goroutine that runs only between a receive from its    *)
(* unblock channel and its next send to aboutToBlock.  User code is a      *)
(* nondeterministic choice of the next runtime call, bounded by MaxOps.    *)
(* Values sent on a channel are tickets: the n-th send issued on a channel *)
(* carries n, so that the order of delivery can be observed.               *)
(***************************************************************************)
EXTENDS Integers, Sequences, FiniteSets, TLC

\* ---------------------------------------------------------------- bounds
MaxOps == 6          \* runtime calls made by user code, all coroutines together
MaxCoroutines == 3   \* coroutines ever created (d.sequence)
MaxTicks == 2        \* invocations of ExecuteUntilAllBlocked by the host
MaxCases == 3        \* cases of one selector
MaxFutureOps == 4    \* of the runtime calls, those on futures
MaxHostCalls == 2    \* calls of the host besides its decision ticks
MaxHostOps == 4      \* runtime calls of user code in the runs with such host calls
MaxLiveOps == 4      \* runtime calls of user code in the runs checked for termination

\* Channels of user code: channel 1 is unbuffered, channel 2 has capacity 1.
Chan == {1, 2}

\* Futures of user code.  The internal channel of future f is FutChan(f); it
\* is only ever closed.
Fut == {1, 2, 3}
FutChan(f) == 2 + f
AllChan == Chan \cup {FutChan(f) : f \in Fut}

Size(ch) == IF ch \in Chan THEN ch - 1 ELSE 0

\* The (value, error) pairs user code sets futures to.
Results == {[value |-> 1, err |-> 0], [value |-> 0, err |-> 1]}

nil == 0

NoLast == [op |-> "none"]

\* *rpp before the root function has returned, and a tick without Complete.
NoResult == [set |-> FALSE, value |-> nil, err |-> nil]
NoComplete == [kind |-> "none", value |-> nil, err |-> nil]

VARIABLES
    chans,       \* [AllChan -> channelImpl]
    futures,     \* [Fut -> futureImpl]
    links,       \* history: <<g, f>> when g.Chain(f) was called and returned
    fpanic,      \* history: a call on a future has panicked
    invs,        \* closure variables of the calls that registered a callback
    co,          \* coroutineState of every coroutine ever created, by sequence
    coroutines,  \* d.coroutines: the sequence numbers of the live coroutines
    d,           \* dispatcherImpl and the position of ExecuteUntilAllBlocked
    sent,        \* history: per channel, how each ticket was issued ("call": Send or
                 \* SendAsync, "case": the send case of a Select)
    delivered,   \* history: tickets taken out of the channel, by a receive call or
                 \* by a receive callback that accepted, per channel, in order
    handed,      \* history: tickets a receive call returned or a handler of a
                 \* receive case was invoked with, per channel, in order
    pass,        \* history: what happened during the current pass
    ret,         \* history: how the last ExecuteUntilAllBlocked ended
    last,        \* history: the Select call user code made last, if that was its last call
    nops,        \* runtime calls made so far
    ticks,       \* invocations of ExecuteUntilAllBlocked so far
    wf           \* syncWorkflowDefinition: the result slot, cancel, cancelRequested, the
                 \* root context, and what the environment was told

vars == <<chans, futures, links, fpanic, invs, co, coroutines, d, sent, delivered, handed, pass, ret, last, nops, ticks, wf>>

\* ------------------------------------------------------------ channelImpl
NewChannel == [buffer |-> <<>>, blockedSends |-> <<>>,
               blockedReceives |-> <<>>, closed |-> FALSE]

NoCallback == [inv |-> 0, case |-> 0]
NoPair == [value |-> 0, inv |-> 0, case |-> 0]

\* The closure variables of one call.  kind "recv": latched = hasResult,
\* val = result, more = more.  kind "send": latched = valueConsumed.
\* kind "sel": latched = the case whose handler readyBranch holds (0: nil),
\* val and more = the arguments readyBranch captured; for a send case more is
\* history: a receiver took the value (false: Close invoked the callback).
\* refused is history: a callback of the call has returned false.  cases is
\* history: the cases of the selector a blocked Select waits on.
NewInv(kind, c) == [kind |-> kind, co |-> c, latched |-> 0, val |-> nil, more |-> FALSE,
                    refused |-> FALSE, cases |-> <<>>]

\* The callback of ReceiveWithMoreFlag: always accepts.
ReceiveCallback(r, v, m) ==
    [ok |-> TRUE, r |-> [r EXCEPT !.latched = 1, !.val = v, !.more = m]]

\* The callback of Send's valueCallbackPair: always accepts.
SendCallback(r) ==
    [ok |-> TRUE, r |-> [r EXCEPT !.latched = 1]]

\* A callback that takes every event, whatever readyBranch holds.
SelectCallbackOverwrites(r, k, v, m) ==
    [ok |-> TRUE, r |-> [r EXCEPT !.latched = k, !.val = v, !.more = m]]

\* The callback a Select registers for case k: refuses once readyBranch is set.
SelectCallback(r, k, v, m) ==
    IF r.latched # 0
    THEN [ok |-> FALSE, r |-> [r EXCEPT !.refused = TRUE]]
    ELSE [ok |-> TRUE, r |-> [r EXCEPT !.latched = k, !.val = v, !.more = m]]

\* blockedGet(v, more) for a registered receive callback cb.
InvokeReceive(iv, cb, v, m) ==
    LET r == iv[cb.inv]
        res == IF r.kind = "sel" THEN SelectCallback(r, cb.case, v, m)
               ELSE ReceiveCallback(r, v, m)
    IN [ok |-> res.ok, invs |-> [iv EXCEPT ![cb.inv] = res.r]]

\* b.callback() for a registered sender b.  taken: by receiveAsyncImpl.
InvokeSend(iv, b, taken) ==
    LET r == iv[b.inv]
        res == IF r.kind = "sel" THEN SelectCallback(r, b.case, nil, taken)
               ELSE SendCallback(r)
    IN [ok |-> res.ok, invs |-> [iv EXCEPT ![b.inv] = res.r]]

\* A send that offers its value to no blocked receiver.
OfferToNone(q, iv, v) == [ok |-> FALSE, q |-> q, invs |-> iv]

\* The loop of sendAsyncImpl over blockedReceives: the first callback that
\* accepts v takes it; the ones that refused are dropped from the queue.
RECURSIVE OfferToReceivers(_, _, _)
OfferToReceivers(q, iv, v) ==
    IF q = <<>> THEN [ok |-> FALSE, q |-> q, invs |-> iv]
    ELSE LET r == InvokeReceive(iv, Head(q), v, TRUE)
         IN IF r.ok THEN [ok |-> TRUE, q |-> Tail(q), invs |-> r.invs]
            ELSE OfferToReceivers(Tail(q), r.invs, v)

\* The loop of receiveAsyncImpl over blockedSends.
RECURSIVE TakeFromSenders(_, _)
TakeFromSenders(q, iv) ==
    IF q = <<>> THEN [ok |-> FALSE, q |-> q, invs |-> iv, v |-> nil]
    ELSE LET r == InvokeSend(iv, Head(q), TRUE)
         IN IF r.ok THEN [ok |-> TRUE, q |-> Tail(q), invs |-> r.invs, v |-> Head(q).value]
            ELSE TakeFromSenders(Tail(q), r.invs)

\* The heap the channel code works on.
Heap == [chans |-> chans, invs |-> invs, delivered |-> delivered]

Deliver(h, ch, v) == [h EXCEPT !.delivered[ch] = Append(@, v)]

sendAsyncImpl(h, ch, v, pair) ==
    LET c == h.chans[ch] IN
    IF c.closed THEN [panic |-> TRUE, ok |-> FALSE, h |-> h]
    ELSE LET o == OfferToReceivers(c.blockedReceives, h.invs, v)
             h1 == [h EXCEPT !.chans[ch].blockedReceives = o.q, !.invs = o.invs]
         IN IF o.ok THEN [panic |-> FALSE, ok |-> TRUE, h |-> Deliver(h1, ch, v)]
            ELSE IF Len(c.buffer) < Size(ch)
            THEN [panic |-> FALSE, ok |-> TRUE,
                  h |-> [h1 EXCEPT !.chans[ch].buffer = Append(@, v)]]
            ELSE IF pair # NoPair
            THEN [panic |-> FALSE, ok |-> FALSE,
                  h |-> [h1 EXCEPT !.chans[ch].blockedSends = Append(@, pair)]]
            ELSE [panic |-> FALSE, ok |-> FALSE, h |-> h1]

receiveAsyncImpl(h, ch, callback) ==
    LET c == h.chans[ch] IN
    IF Len(c.buffer) > 0
    THEN [v |-> Head(c.buffer), ok |-> TRUE, more |-> TRUE,
          h |-> Deliver([h EXCEPT !.chans[ch].buffer = Tail(@)], ch, Head(c.buffer))]
    ELSE IF c.closed THEN [v |-> nil, ok |-> FALSE, more |-> FALSE, h |-> h]
    ELSE LET t == TakeFromSenders(c.blockedSends, h.invs)
             h1 == [h EXCEPT !.chans[ch].blockedSends = t.q, !.invs = t.invs]
         IN IF t.ok THEN [v |-> t.v, ok |-> TRUE, more |-> TRUE, h |-> Deliver(h1, ch, t.v)]
            ELSE IF callback # NoCallback
            THEN [v |-> nil, ok |-> FALSE, more |-> TRUE,
                  h |-> [h1 EXCEPT !.chans[ch].blockedReceives = Append(@, callback)]]
            ELSE [v |-> nil, ok |-> FALSE, more |-> TRUE, h |-> h1]

\* A Close that invokes no receive callback.
LeaveReceivers(q, iv) == iv

\* The two loops of Close: every registered callback is invoked, its answer
\* ignored, and none is removed from its queue.
RECURSIVE CloseReceivers(_, _)
CloseReceivers(q, iv) ==
    IF q = <<>> THEN iv
    ELSE CloseReceivers(Tail(q), InvokeReceive(iv, Head(q), nil, FALSE).invs)

RECURSIVE CloseSenders(_, _)
CloseSenders(q, iv) ==
    IF q = <<>> THEN iv
    ELSE CloseSenders(Tail(q), InvokeSend(iv, Head(q), FALSE).invs)

ChannelClose(h, ch) ==
    LET c == h.chans[ch]
        iv1 == CloseReceivers(c.blockedReceives, h.invs)
        iv2 == CloseSenders(c.blockedSends, iv1)
    IN [h EXCEPT !.chans[ch].closed = TRUE, !.invs = iv2]

\* ------------------------------------------------------------- futureImpl
\* A future as NewFuture leaves it.  chained: the futures chained to this one,
\* in the order of their Chain calls.
NewFuture == [value |-> nil, err |-> nil, ready |-> FALSE, chained |-> <<>>]

\* futureImpl.Set on the futures of todo, one after the other: a future that
\* is ready already panics, which ends everything; any other is set, its
\* channel closed, and the futures chained to it are set, in order, before the
\* rest of todo (the nested calls of the loop over f.chained).
RECURSIVE SetEach(_, _, _, _, _)
SetEach(h, fs, todo, v, e) ==
    IF todo = <<>> THEN [panic |-> FALSE, h |-> h, fs |-> fs]
    ELSE LET f == Head(todo) IN
         IF fs[f].ready THEN [panic |-> TRUE, h |-> h, fs |-> fs]
         ELSE SetEach(ChannelClose(h, FutChan(f)),
                      [fs EXCEPT ![f].value = v, ![f].err = e, ![f].ready = TRUE],
                      fs[f].chained \o Tail(todo), v, e)

\* futureImpl.Set
futureSet(h, fs, f, v, e) == SetEach(h, fs, <<f>>, v, e)

\* A Set-like call that stores its result into a future that is ready already.
SetValueOverwrites(h, fs, f, v) ==
    [panic |-> FALSE, h |-> h, fs |-> [fs EXCEPT ![f].value = v, ![f].err = nil]]

\* futureImpl.SetValue
SetValue(h, fs, f, v) ==
    IF fs[f].ready THEN [panic |-> TRUE, h |-> h, fs |-> fs]
    ELSE futureSet(h, fs, f, v, nil)

\* futureImpl.SetError
SetError(h, fs, f, e) ==
    IF fs[f].ready THEN [panic |-> TRUE, h |-> h, fs |-> fs]
    ELSE futureSet(h, fs, f, nil, e)

\* futureImpl.ChainFuture: other.ChainFuture(f)
ChainFuture(fs, other, f) == [fs EXCEPT ![other].chained = Append(@, f)]

\* futureImpl.Chain: f.Chain(other)
Chain(fs, f, other) ==
    IF fs[f].ready THEN [panic |-> TRUE, fs |-> fs]
    ELSE IF ~fs[other].ready THEN [panic |-> FALSE, fs |-> ChainFuture(fs, other, f)]
    ELSE [panic |-> FALSE,
          fs |-> [fs EXCEPT ![f].value = fs[other].value, ![f].err = fs[other].err,
                            ![f].ready = TRUE]]

\* futureImpl.GetAsync
GetAsync(h, fs, f, callback) ==
    LET r == receiveAsyncImpl(h, FutChan(f), callback)
    IN [ok |-> ~r.more, panic |-> ~r.more /\ ~fs[f].ready, h |-> r.h]

\* --------------------------------------------------------- coroutineState
\* pc: "waitUnblock" (in initialYield, at the receive from s.unblock),
\* "resumed" (got an unblock function that returned false), "run" (in user
\* code), "done" (the goroutine ended after close()).
\* op, ch, inv: the blocking call the coroutine is inside, if any.
\* depth: selector handlers entered from the blocking path of Select whose
\* return, followed by state.unblocked(), is still to come.
newState == [pc |-> "waitUnblock", keptBlocked |-> FALSE, closed |-> FALSE,
             panicError |-> FALSE, aboutToBlock |-> 0,
             op |-> "none", ch |-> 0, inv |-> 0, depth |-> 0, exits |-> 0,
             traces |-> 0]

\* A yield that waits on s.unblock without the signal on s.aboutToBlock.
YieldsSilently(s) == [s EXCEPT !.pc = "waitUnblock"]

\* yield: s.aboutToBlock <- true, then initialYield waits on s.unblock.
yield(s) == [s EXCEPT !.aboutToBlock = @ + 1, !.pc = "waitUnblock"]

unblocked(s) == [s EXCEPT !.keptBlocked = FALSE]

\* close(): the deferred call that ends the goroutine of a coroutine.
close(s) == [s EXCEPT !.closed = TRUE, !.aboutToBlock = @ + 1, !.pc = "done",
                      !.op = "none", !.ch = 0, !.inv = 0, !.depth = 0]

\* exit: a coroutine that is not closed gets, on its unblock channel, the
\* function that calls runtime.Goexit.  exits is history: how many it got.
exit(s) == IF s.closed THEN s ELSE [s EXCEPT !.exits = @ + 1, !.pc = "exiting"]

\* An unblock function that returns false: initialYield ends its loop.
TraceResumes(s) == IF s.closed THEN s ELSE [s EXCEPT !.traces = @ + 1, !.pc = "resumed"]

\* stackTrace: a coroutine that is not closed gets, on its unblock channel, a
\* function that takes the stack and returns true, so that initialYield goes
\* on waiting.  traces is history: how many it got.
stackTrace(s) == IF s.closed THEN s ELSE [s EXCEPT !.traces = @ + 1]

\* A panic in the coroutine: recover() stores it, then close() runs.
panicked(s) == close([s EXCEPT !.panicError = TRUE])

Running(c) == c \in DOMAIN co /\ co[c].pc \in {"resumed", "run"}
InUserCode(c) == c \in DOMAIN co /\ co[c].pc = "run" /\ nops < MaxOps
InFutureCode(c) == InUserCode(c) /\ nops < MaxFutureOps

\* The last closure, dropped when no callback of it was registered.
Trim(iv, keep) == IF keep THEN iv ELSE SubSeq(iv, 1, Len(iv) - 1)

Progress == [pass EXCEPT !.progress = TRUE]

\* history: the coroutine the pass has called went on into its code (b), where
\* it ran or panicked, instead of yielding again at once.
Ran(p, b) == IF b THEN [p EXCEPT !.ran = TRUE] ELSE p

\* ------------------------------------------------------------- user code
\* history: value v of channel ch reaches user code, if there is one (got).
Hand(ch, v, got) == IF got THEN [handed EXCEPT ![ch] = Append(@, v)] ELSE handed

\* history: what a send call on ch, with outcome r, found.
SendRecord(c, ch, r) ==
    [op |-> "send", co |-> c, ch |-> ch, closed |-> chans[ch].closed, panic |-> r.panic]

\* channelImpl.Send
CoSend(c, ch) ==
    /\ InUserCode(c)
    /\ LET v == Len(sent[ch]) + 1
           id == Len(invs) + 1
           h0 == [Heap EXCEPT !.invs = Append(@, NewInv("send", c))]
           r == sendAsyncImpl(h0, ch, v, [value |-> v, inv |-> id, case |-> 0])
       IN /\ chans' = r.h.chans
          /\ invs' = Trim(r.h.invs, ~r.panic /\ ~r.ok)
          /\ delivered' = r.h.delivered
          /\ sent' = IF r.panic THEN sent ELSE [sent EXCEPT ![ch] = Append(@, "call")]
          /\ co' = [co EXCEPT ![c] =
                      IF r.panic THEN panicked(@)
                      ELSE IF r.ok THEN unblocked(@)
                      ELSE yield([@ EXCEPT !.op = "send", !.ch = ch, !.inv = id])]
          /\ pass' = IF r.ok THEN Progress ELSE pass
          /\ last' = SendRecord(c, ch, r)
    /\ nops' = nops + 1
    /\ UNCHANGED <<futures, links, fpanic, coroutines, d, ret, ticks, wf, handed>>

\* channelImpl.SendAsync
CoSendAsync(c, ch) ==
    /\ InUserCode(c)
    /\ LET v == Len(sent[ch]) + 1
           r == sendAsyncImpl(Heap, ch, v, NoPair)
       IN /\ chans' = r.h.chans
          /\ invs' = r.h.invs
          /\ delivered' = r.h.delivered
          /\ sent' = IF r.panic THEN sent ELSE [sent EXCEPT ![ch] = Append(@, "call")]
          /\ co' = IF r.panic THEN [co EXCEPT ![c] = panicked(@)] ELSE co
          /\ pass' = IF r.ok THEN Progress ELSE pass
          /\ last' = SendRecord(c, ch, r)
    /\ nops' = nops + 1
    /\ UNCHANGED <<futures, links, fpanic, coroutines, d, ret, ticks, wf, handed>>

\* history: what a receive call on ch, with outcome r, found and returned.
RecvRecord(c, ch, r, returns) ==
    [op |-> "recv", co |-> c, ch |-> ch, closed |-> chans[ch].closed,
     buffer |-> chans[ch].buffer, v |-> r.v, ok |-> r.ok, more |-> r.more,
     returned |-> returns]

\* channelImpl.ReceiveWithMoreFlag (and Receive, which drops the flag)
CoReceive(c, ch) ==
    /\ InUserCode(c)
    /\ LET id == Len(invs) + 1
           h0 == [Heap EXCEPT !.invs = Append(@, NewInv("recv", c))]
           r == receiveAsyncImpl(h0, ch, [inv |-> id, case |-> 0])
           returns == r.ok \/ ~r.more
       IN /\ chans' = r.h.chans
          /\ invs' = Trim(r.h.invs, ~returns)
          /\ delivered' = r.h.delivered
          /\ co' = IF returns THEN co
                   ELSE [co EXCEPT ![c] = yield([@ EXCEPT !.op = "recv", !.ch = ch, !.inv = id])]
          /\ handed' = Hand(ch, r.v, r.ok)
          /\ pass' = IF r.ok THEN Progress ELSE pass
          /\ last' = RecvRecord(c, ch, r, returns)
    /\ nops' = nops + 1
    /\ UNCHANGED <<futures, links, fpanic, coroutines, d, sent, ret, ticks, wf>>

\* channelImpl.ReceiveAsyncWithMoreFlag (and ReceiveAsync)
CoReceiveAsync(c, ch) ==
    /\ InUserCode(c)
    /\ LET r == receiveAsyncImpl(Heap, ch, NoCallback)
       IN /\ chans' = r.h.chans
          /\ invs' = r.h.invs
          /\ delivered' = r.h.delivered
          /\ handed' = Hand(ch, r.v, r.ok)
          /\ pass' = IF r.ok THEN Progress ELSE pass
          /\ last' = RecvRecord(c, ch, r, TRUE)
    /\ nops' = nops + 1
    /\ UNCHANGED <<futures, links, fpanic, co, coroutines, d, sent, ret, ticks, wf>>

\* channelImpl.Close
CoClose(c, ch) ==
    /\ InUserCode(c)
    /\ LET h == ChannelClose(Heap, ch)
       IN /\ chans' = h.chans
          /\ invs' = h.invs
    /\ nops' = nops + 1
    /\ UNCHANGED <<futures, links, fpanic, co, coroutines, d, sent, delivered, handed, pass, ret, ticks, wf>>
    /\ last' = NoLast

\* A producer-side call on a future made by coroutine c, with outcome r.
FutureCall(c, r, rec) ==
    /\ futures' = r.fs
    /\ fpanic' = (fpanic \/ r.panic)
    /\ co' = IF r.panic THEN [co EXCEPT ![c] = panicked(@)] ELSE co
    /\ last' = [rec EXCEPT !.panic = r.panic]
    /\ nops' = nops + 1
    /\ UNCHANGED <<coroutines, d, sent, delivered, handed, pass, ret, ticks, wf>>

SetRecord(c, f) == [op |-> "set", co |-> c, f |-> f, wasReady |-> futures[f].ready,
                    panic |-> FALSE]

\* futureImpl.Set
FutSet(c, f, res) ==
    /\ InFutureCode(c)
    /\ LET r == futureSet(Heap, futures, f, res.value, res.err)
       IN /\ chans' = r.h.chans
          /\ invs' = r.h.invs
          /\ FutureCall(c, r, SetRecord(c, f))
    /\ links' = links

\* futureImpl.SetValue
FutSetValue(c, f, v) ==
    /\ InFutureCode(c)
    /\ LET r == SetValue(Heap, futures, f, v)
       IN /\ chans' = r.h.chans
          /\ invs' = r.h.invs
          /\ FutureCall(c, r, SetRecord(c, f))
    /\ links' = links

\* futureImpl.SetError
FutSetError(c, f, e) ==
    /\ InFutureCode(c)
    /\ LET r == SetError(Heap, futures, f, e)
       IN /\ chans' = r.h.chans
          /\ invs' = r.h.invs
          /\ FutureCall(c, r, SetRecord(c, f))
    /\ links' = links

\* futureImpl.Chain: f.Chain(other)
FutChain(c, f, other) ==
    /\ InFutureCode(c)
    /\ f # other
    /\ LET r == Chain(futures, f, other)
       IN /\ FutureCall(c, r, [op |-> "chain", co |-> c, f |-> f, other |-> other,
                               otherReady |-> futures[other].ready, panic |-> FALSE])
          /\ links' = IF r.panic THEN links ELSE links \cup {<<f, other>>}
    /\ UNCHANGED <<chans, invs>>

\* futureImpl.Get up to its first yield
CoGet(c, f) ==
    /\ InFutureCode(c)
    /\ LET id == Len(invs) + 1
           h0 == [Heap EXCEPT !.invs = Append(@, NewInv("recv", c))]
           r == receiveAsyncImpl(h0, FutChan(f), [inv |-> id, case |-> 0])
           returns == r.ok \/ ~r.more
           panics == returns /\ (r.more \/ ~futures[f].ready)
       IN /\ chans' = r.h.chans
          /\ invs' = Trim(r.h.invs, ~returns)
          /\ delivered' = r.h.delivered
          /\ co' = [co EXCEPT ![c] =
                      IF panics THEN panicked(@)
                      ELSE IF returns THEN @
                      ELSE yield([@ EXCEPT !.op = "get", !.ch = FutChan(f), !.inv = id])]
          /\ pass' = IF r.ok THEN Progress ELSE pass
          /\ fpanic' = (fpanic \/ panics)
    /\ nops' = nops + 1
    /\ UNCHANGED <<futures, links, coroutines, d, sent, ret, ticks, wf, handed>>
    /\ last' = NoLast

\* coroutineState.NewCoroutine: dispatcherImpl.newNamedCoroutine, newState.
\* The new goroutine starts in initialYield.
CoSpawn(c) ==
    /\ InUserCode(c)
    /\ d.sequence < MaxCoroutines
    /\ co' = Append(co, newState)
    /\ coroutines' = Append(coroutines, d.sequence + 1)
    /\ d' = [d EXCEPT !.sequence = @ + 1]
    /\ pass' = [pass EXCEPT !.progress = TRUE, !.spawned = TRUE]
    /\ nops' = nops + 1
    /\ UNCHANGED <<futures, links, fpanic, chans, invs, sent, delivered, handed, ret, ticks, wf>>
    /\ last' = NoLast

\* Lines 314-317: the workflow function returns r to the root function, which
\* stores it in the result slot.
RootReturn(c, r) ==
    IF c = 1 THEN [wf EXCEPT !.rp = [set |-> TRUE, value |-> r.value, err |-> r.err]]
    ELSE wf

\* The coroutine function returns: the deferred close().
CoReturn(c) ==
    /\ c \in DOMAIN co
    /\ co[c].pc = "run"
    /\ co[c].depth = 0
    /\ co' = [co EXCEPT ![c] = close(@)]
    /\ \E r \in Results : wf' = RootReturn(c, r)
    /\ UNCHANGED <<futures, links, fpanic, chans, invs, coroutines, d, sent, delivered, handed, pass, ret, nops, ticks, last>>

\* User code panics.
CoPanic(c) ==
    /\ InUserCode(c)
    /\ co' = [co EXCEPT ![c] = panicked(@)]
    /\ nops' = nops + 1
    /\ UNCHANGED <<futures, links, fpanic, chans, invs, coroutines, d, sent, delivered, handed, pass, ret, ticks, wf>>
    /\ last' = NoLast

\* ----------------------------------------------------------- selectorImpl
\* A selector as Select finds it: AddReceive, AddReceiveWithMoreFlag and
\* AddSend append a case, AddDefault sets the default.
Cases == [kind : {"recv", "send"}, ch : Chan]

RECURSIVE CaseLists(_)
CaseLists(n) ==
    IF n = 0 THEN {<<>>}
    ELSE LET shorter == CaseLists(n - 1)
         IN shorter \cup {Append(q, cs) : q \in {x \in shorter : Len(x) = n - 1}, cs \in Cases}

Selectors == {s \in [cases : CaseLists(MaxCases), default : BOOLEAN] :
                 s.cases # <<>> \/ s.default}

\* AddFuture: a case on future f holds the future, here by its channel.
FutureCases == {[kind |-> "future", ch |-> FutChan(f)] : f \in Fut}
FutureOf(cs) == cs.ch - 2

FutureSelectors ==
    {[cases |-> q, default |-> b] : q \in {<<x>> : x \in FutureCases}
                                         \cup {<<x, y>> : x \in FutureCases, y \in FutureCases},
                                   b \in BOOLEAN}

\* The runtime calls user code makes to build selector s and select on it.
Calls(s) == Len(s.cases) + (IF s.default THEN 1 ELSE 0) + 1

\* One iteration of the loop of Select: case cs, the k-th, is tried with its
\* non-blocking call, which registers the case's callback when it cannot
\* complete.  done: Select goes no further, as the case completed (fired: its
\* handler was invoked) or panicked.
TryCase(h, snt, id, cs, k) ==
    IF cs.kind = "recv"
    THEN LET r == receiveAsyncImpl(h, cs.ch, [inv |-> id, case |-> k])
             ok == r.ok \/ ~r.more
         IN [done |-> ok, h |-> r.h, sent |-> snt,
             fired |-> IF ok THEN <<k>> ELSE <<>>, panic |-> FALSE]
    ELSE IF cs.kind = "future"
    THEN LET r == GetAsync(h, futures, FutureOf(cs), [inv |-> id, case |-> k])
         IN [done |-> r.ok, h |-> r.h, sent |-> snt,
             fired |-> IF r.ok /\ ~r.panic THEN <<k>> ELSE <<>>, panic |-> r.panic]
    ELSE LET v == Len(snt[cs.ch]) + 1
             r == sendAsyncImpl(h, cs.ch, v, [value |-> v, inv |-> id, case |-> k])
         IN [done |-> r.panic \/ r.ok, h |-> r.h,
             sent |-> IF r.panic THEN snt ELSE [snt EXCEPT ![cs.ch] = Append(@, "case")],
             fired |-> IF r.ok THEN <<k>> ELSE <<>>, panic |-> r.panic]

\* The loop of Select over s.cases from case k on, up to the first case that
\* completes.  fired: the cases whose handler was invoked.
RECURSIVE Probe(_, _, _, _, _)
Probe(h, snt, id, cases, k) ==
    IF k > Len(cases) THEN [h |-> h, sent |-> snt, fired |-> <<>>, panic |-> FALSE]
    ELSE LET t == TryCase(h, snt, id, cases[k], k)
         IN IF t.done THEN [h |-> t.h, sent |-> t.sent, fired |-> t.fired, panic |-> t.panic]
            ELSE Probe(t.h, t.sent, id, cases, k + 1)

SelectProbes(h, snt, id, cases) == Probe(h, snt, id, cases, 1)

\* Whether a callback of closure id is registered on some channel.
Registered(cs, id) ==
    \E ch \in AllChan :
        \/ \E i \in 1..Len(cs[ch].blockedReceives) : cs[ch].blockedReceives[i].inv = id
        \/ \E i \in 1..Len(cs[ch].blockedSends) : cs[ch].blockedSends[i].inv = id

\* history: whether case cs could complete without blocking in heap h.
ReadyCase(h, cs) ==
    IF cs.kind = "recv"
    THEN LET r == receiveAsyncImpl(h, cs.ch, NoCallback) IN r.ok \/ ~r.more
    ELSE IF cs.kind = "future"
    THEN GetAsync(h, futures, FutureOf(cs), NoCallback).ok
    ELSE sendAsyncImpl(h, cs.ch, Len(sent[cs.ch]) + 1, NoPair).ok

Queues(cs) == [ch \in AllChan |-> <<cs[ch].blockedReceives, cs[ch].blockedSends>>]

\* The rest of Select once its loop over the cases has ended with outcome p.
SelectEnd(c, s, id, p) ==
    LET sync == p.fired # <<>>
        blocks == ~p.panic /\ ~sync /\ ~s.default
        keep == blocks \/ Registered(p.h.chans, id)
    IN /\ chans' = p.h.chans
       /\ invs' = Trim(p.h.invs, keep)
       /\ delivered' = p.h.delivered
       /\ handed' = IF sync /\ s.cases[p.fired[1]].kind = "recv"
                    THEN LET ch == s.cases[p.fired[1]].ch
                             q == p.h.delivered[ch]
                         IN Hand(ch, q[Len(q)], Len(q) > Len(delivered[ch]))
                    ELSE handed
       /\ sent' = p.sent
       /\ co' = [co EXCEPT ![c] =
                   IF p.panic THEN panicked(@)
                   ELSE IF blocks THEN yield([@ EXCEPT !.op = "sel", !.inv = id])
                   ELSE @]
       /\ pass' = IF sync THEN Progress ELSE pass
       /\ last' = [op |-> "select", co |-> c, sel |-> s, inv |-> IF keep THEN id ELSE 0,
                   ready |-> {k \in 1..Len(s.cases) : ReadyCase(Heap, s.cases[k])},
                   fired |-> IF ~p.panic /\ ~sync /\ s.default THEN <<0>> ELSE p.fired,
                   yielded |-> blocks, panic |-> p.panic, ended |-> ~blocks /\ ~p.panic,
                   before |-> Queues(chans)]

\* selectorImpl.Select up to its first yield.  A handler invoked here runs as
\* part of the user code that follows.
Select(c, s) ==
    /\ nops + Calls(s) <= MaxOps
    /\ SelectEnd(c, s, Len(invs) + 1,
                 SelectProbes([Heap EXCEPT !.invs = Append(@, [NewInv("sel", c) EXCEPT
                                                                   !.cases = s.cases])],
                              sent, Len(invs) + 1, s.cases))
    /\ nops' = nops + Calls(s)
    /\ UNCHANGED <<futures, links, fpanic, coroutines, d, ret, ticks, wf>>

\* User code builds a selector and calls Select on it.
CoSelect(c) ==
    /\ c \in DOMAIN co
    /\ co[c].pc = "run"
    /\ nops < MaxOps
    /\ \E s \in Selectors : Select(c, s)

\* User code builds a selector of future cases and calls Select on it.
CoSelectFuture(c) ==
    /\ c \in DOMAIN co
    /\ co[c].pc = "run"
    /\ nops < MaxOps
    /\ \E s \in FutureSelectors : Select(c, s)

\* A handler that readyBranch invoked returns, and Select calls
\* state.unblocked() and returns.
CoHandlerReturn(c) ==
    /\ c \in DOMAIN co
    /\ co[c].pc = "run"
    /\ co[c].depth > 0
    /\ co' = [co EXCEPT ![c] = unblocked([@ EXCEPT !.depth = @ - 1])]
    /\ UNCHANGED <<futures, links, fpanic, chans, invs, coroutines, d, sent, delivered, handed, pass, ret, last, nops, ticks, wf>>

\* The return from yield into the loop of the blocking call: s.keptBlocked =
\* true, then the loop's test.  A new coroutine leaves initialYield into f.
\* A root function that does not look at cancelRequested.
RootStartUnaware(w) == [w EXCEPT !.cancel = TRUE, !.atStart = w.cancelled]

\* Lines 310-315: the root function, first resumed, gets the cancel function of
\* its context, calls it if a cancel was requested, and calls the workflow
\* function.  atStart is history: the context was cancelled at that call.
RootStart(w) ==
    [w EXCEPT !.cancel = TRUE,
              !.cancelled = w.cancelled \/ w.cancelRequested,
              !.atStart = w.cancelled \/ w.cancelRequested]

CoResume(c) ==
    /\ c \in DOMAIN co
    /\ co[c].pc = "resumed"
    /\ LET s == co[c]
           k == [s EXCEPT !.keptBlocked = TRUE]
           got == invs[s.inv].latched # 0
           back == [k EXCEPT !.pc = "run", !.op = "none", !.ch = 0, !.inv = 0]
           spent == [invs EXCEPT ![s.inv].val = nil, ![s.inv].more = FALSE,
                                 ![s.inv].cases = <<>>]
       IN CASE s.op = "none" ->
                 /\ co' = [co EXCEPT ![c].pc = "run"]
                 /\ pass' = Ran(pass, TRUE)
                 /\ UNCHANGED <<invs, last, handed>>
            [] s.op = "send" ->
                 /\ co' = [co EXCEPT ![c] =
                             IF chans[s.ch].closed THEN panicked(k)
                             ELSE IF got THEN unblocked(back) ELSE yield(k)]
                 /\ pass' = Ran(IF ~chans[s.ch].closed /\ got THEN Progress ELSE pass,
                                chans[s.ch].closed \/ got)
                 /\ UNCHANGED <<invs, last, handed>>
            [] s.op = "recv" ->
                 /\ co' = [co EXCEPT ![c] = IF got THEN unblocked(back) ELSE yield(k)]
                 /\ pass' = Ran(IF got /\ invs[s.inv].more THEN Progress ELSE pass, got)
                 /\ invs' = IF got THEN spent ELSE invs
                 /\ handed' = Hand(s.ch, invs[s.inv].val, got /\ invs[s.inv].more)
                 /\ last' = IF got
                            THEN [op |-> "woken", co |-> c, ch |-> s.ch,
                                  v |-> invs[s.inv].val, more |-> invs[s.inv].more]
                            ELSE last
            [] s.op = "get" ->
                 /\ co' = [co EXCEPT ![c] =
                             IF ~got THEN yield(k)
                             ELSE IF invs[s.inv].more \/ ~futures[s.ch - 2].ready
                             THEN panicked(unblocked(back))
                             ELSE unblocked(back)]
                 /\ pass' = Ran(IF got /\ invs[s.inv].more THEN Progress ELSE pass, got)
                 /\ invs' = IF got THEN spent ELSE invs
                 /\ UNCHANGED <<last, handed>>
            [] s.op = "sel" ->
                 /\ co' = [co EXCEPT ![c] =
                             IF got THEN [back EXCEPT !.depth = @ + 1] ELSE yield(k)]
                 /\ pass' = Ran(IF got THEN Progress ELSE pass, got)
                 /\ invs' = IF got THEN spent ELSE invs
                 /\ handed' = IF got /\ invs[s.inv].cases[invs[s.inv].latched].kind = "recv"
                              THEN Hand(invs[s.inv].cases[invs[s.inv].latched].ch,
                                        invs[s.inv].val, invs[s.inv].more)
                              ELSE handed
                 /\ last' = IF got
                            THEN [op |-> "fire", co |-> c, inv |-> s.inv,
                                  fired |-> <<invs[s.inv].latched>>, ended |-> FALSE,
                                  case |-> invs[s.inv].cases[invs[s.inv].latched],
                                  more |-> invs[s.inv].more]
                            ELSE last
    /\ wf' = IF c = 1 /\ ~wf.cancel THEN RootStart(wf) ELSE wf
    /\ UNCHANGED <<futures, links, fpanic, chans, coroutines, d, sent, delivered, ret, nops, ticks>>

\* --------------------------------------------------------- dispatcherImpl
\* A pass that does not look at the coroutine it has just called.
AllBlockedWhatever(allBlocked, s) == allBlocked

\* Line 698: allBlocked = allBlocked && (c.keptBlocked || c.closed)
AllBlockedAfter(allBlocked, s) == allBlocked /\ (s.keptBlocked \/ s.closed)

\* Line 702: allBlocked = allBlocked && lastSequence == d.sequence
AllBlockedAtEnd(allBlocked, lastSequence, sequence) ==
    allBlocked /\ lastSequence = sequence

\* A call() that does not wait for the coroutine.
NoWait(s) == TRUE

\* call(): <-s.aboutToBlock can proceed.
AboutToBlock(s) == s.aboutToBlock > 0

Remove(q, i) == SubSeq(q, 1, i - 1) \o SubSeq(q, i + 1, Len(q))

NewPass == [progress |-> FALSE, spawned |-> FALSE, visited |-> <<>>, ran |-> FALSE]

\* A dispatcher that takes the coroutine to run from the end of its list.
VisitedFromEnd(q, i) == q[Len(q) + 1 - i]

\* Lines 679-680: the coroutine the inner loop visits at index i.
Visited(q, i) == q[i]

\* A dispatcher that does nothing of what lines 664-669 test.
NeverRejected(dd) == FALSE

\* Lines 664-669: ExecuteUntilAllBlocked panics on a closed dispatcher and on
\* one that is executing.
Rejected(dd) == dd.closed \/ dd.executing

\* history: a call of ExecuteUntilAllBlocked by coroutine c (0: the host) that
\* did not start to run coroutines, or a call of Close.
HostRecord(op, c, panic) ==
    [op |-> op, by |-> c, n |-> d.calls + 1, executing |-> d.executing,
     closed |-> d.closed, panic |-> panic]

\* The host calls ExecuteUntilAllBlocked (a decision task started).  The
\* panics of lines 664-669 leave d.mutex locked.
HostExecute ==
    /\ d.pc = "idle"
    /\ ticks < MaxTicks
    /\ ~d.mutex
    /\ IF Rejected(d)
       THEN /\ d' = [d EXCEPT !.mutex = TRUE, !.calls = @ + 1]
            /\ last' = HostRecord("execute", 0, TRUE)
            /\ UNCHANGED <<pass, ret>>
       ELSE /\ d' = [d EXCEPT !.executing = TRUE, !.pc = "loop", !.i = 1, !.err = nil,
                              !.allBlocked = TRUE, !.lastSequence = d.sequence]
            /\ pass' = NewPass
            /\ ret' = "none"
            /\ last' = last
    /\ ticks' = ticks + 1
    /\ wf' = [wf EXCEPT !.complete = NoComplete]
    /\ UNCHANGED <<futures, links, fpanic, chans, invs, co, coroutines, sent, delivered, handed, nops>>

\* Another thread calls ExecuteUntilAllBlocked while an invocation is running.
HostReenter ==
    /\ d.pc # "idle"
    /\ d.calls < MaxHostCalls
    /\ ~d.mutex
    /\ d' = [d EXCEPT !.mutex = Rejected(d), !.calls = @ + 1]
    /\ last' = HostRecord("execute", 0, Rejected(d))
    /\ UNCHANGED <<futures, links, fpanic, chans, invs, co, coroutines, sent, delivered, handed, pass,
                   ret, nops, ticks, wf>>

\* User code calls ExecuteUntilAllBlocked of its own dispatcher.
CoExecute(c) ==
    /\ InUserCode(c)
    /\ d.calls < MaxHostCalls
    /\ ~d.mutex
    /\ d' = [d EXCEPT !.mutex = Rejected(d), !.calls = @ + 1]
    /\ co' = IF Rejected(d) THEN [co EXCEPT ![c] = panicked(@)] ELSE co
    /\ last' = HostRecord("execute", c, Rejected(d))
    /\ nops' = nops + 1
    /\ UNCHANGED <<futures, links, fpanic, chans, invs, coroutines, sent, delivered, handed, pass, ret,
                   ticks, wf>>

\* Lines 722-727: coroutineState.exit for every coroutine of the list that is
\* not closed.
RECURSIVE ExitAll(_, _)
ExitAll(cs, q) ==
    IF q = <<>> THEN cs
    ELSE ExitAll(IF cs[Head(q)].closed THEN cs ELSE [cs EXCEPT ![Head(q)] = exit(@)],
                 Tail(q))

\* A Close that does not look at d.closed.
NeverClosed(dd) == FALSE

\* Lines 716-719: Close returns at once on a closed dispatcher.
AlreadyClosed(dd) == dd.closed

\* dispatcherImpl.Close, called by the host between two invocations of
\* ExecuteUntilAllBlocked.
HostClose ==
    /\ d.pc = "idle"
    /\ d.calls < MaxHostCalls
    /\ ~d.mutex
    /\ d' = [d EXCEPT !.closed = TRUE, !.calls = @ + 1]
    /\ co' = IF AlreadyClosed(d) THEN co ELSE ExitAll(co, coroutines)
    /\ last' = HostRecord("close", 0, FALSE)
    /\ UNCHANGED <<futures, links, fpanic, chans, invs, coroutines, sent, delivered, handed, pass, ret,
                   nops, ticks, wf>>

\* c.call(): the unblock function that returns false is handed to the
\* coroutine, which is waiting in initialYield.
DispCall ==
    /\ d.pc = "loop"
    /\ d.i <= Len(coroutines)
    /\ LET c == Visited(coroutines, d.i)
       IN IF co[c].closed
          THEN /\ d' = [d EXCEPT !.pc = "call"]
               /\ co' = [co EXCEPT ![c].aboutToBlock = @ + 1]
               /\ pass' = pass
          ELSE /\ co[c].pc = "waitUnblock"
               /\ co' = [co EXCEPT ![c].pc = "resumed"]
               /\ d' = [d EXCEPT !.pc = "call"]
               /\ pass' = [pass EXCEPT !.visited = Append(@, c)]
    /\ UNCHANGED <<futures, links, fpanic, chans, invs, coroutines, sent, delivered, handed, ret, nops, ticks, last, wf>>

\* A loop that goes on behind the place of the coroutine it removed.
SkipsAfterRemove(i) == i + 1

\* Lines 689-691 and the i++ of line 678: after the coroutine at index i is
\* removed, the loop goes on at index i, where the next coroutine now is.
AfterRemove(i) == i

\* A driver that does not look at what ExecuteUntilAllBlocked returned.
DriverIgnoresPanic(panic, rp) ==
    IF rp.set THEN [kind |-> "result", value |-> rp.value, err |-> rp.err] ELSE NoComplete

\* executeDispatcher after ExecuteUntilAllBlocked has returned: the call of
\* env.Complete it makes, if any.
RootDriver(panic, rp) ==
    IF panic THEN [kind |-> "error", value |-> nil, err |-> 1]
    ELSE IF rp.set THEN [kind |-> "result", value |-> rp.value, err |-> rp.err]
    ELSE NoComplete

\* The workflow after executeDispatcher has made the call of env.Complete, if
\* any.  completes is history: the calls of env.Complete so far.
Told(w, call) ==
    [w EXCEPT !.complete = call,
              !.completes = IF call.kind = "none" THEN @ ELSE @ + 1]

\* A dispatcher that takes no closed coroutine for a panicked one.
ReturnsNoPanic(s) == FALSE

\* Line 692: the closed coroutine holds a captured panic.
ReturnsPanic(s) == s.panicError

\* call() returns on <-s.aboutToBlock; lines 687-699.  d.err is the PanicError
\* the invocation returns, named by the coroutine that holds it (nil: no panic).
DispAfterCall ==
    /\ d.pc = "call"
    /\ LET c == coroutines[d.i]
           s == co[c]
       IN /\ AboutToBlock(s)
          /\ co' = [co EXCEPT ![c].aboutToBlock = IF @ > 0 THEN @ - 1 ELSE 0]
          /\ IF s.closed
             THEN /\ coroutines' = Remove(coroutines, d.i)
                  /\ IF ReturnsPanic(s)
                     THEN /\ d' = [d EXCEPT !.pc = "idle", !.executing = FALSE, !.err = c]
                          /\ ret' = "panic"
                          /\ wf' = Told(wf, RootDriver(TRUE, wf.rp))
                     ELSE /\ d' = [d EXCEPT !.pc = "loop", !.i = AfterRemove(d.i),
                                            !.allBlocked = FALSE]
                          /\ ret' = ret
                          /\ wf' = wf
             ELSE /\ coroutines' = coroutines
                  /\ d' = [d EXCEPT !.pc = "loop", !.i = @ + 1,
                                    !.allBlocked = AllBlockedAfter(d.allBlocked, s)]
                  /\ ret' = ret
                  /\ wf' = wf
    /\ UNCHANGED <<futures, links, fpanic, chans, invs, sent, delivered, handed, pass, nops, ticks, last>>

\* The end of the inner loop: lines 702-706 and the test of the outer loop.
DispPassEnd ==
    /\ d.pc = "loop"
    /\ d.i > Len(coroutines)
    /\ LET ab == AllBlockedAtEnd(d.allBlocked, d.lastSequence, d.sequence)
       IN IF Len(coroutines) = 0 \/ ab
          THEN /\ d' = [d EXCEPT !.pc = "idle", !.executing = FALSE, !.allBlocked = ab]
               /\ ret' = "normal"
               /\ pass' = pass
               /\ wf' = Told(wf, RootDriver(FALSE, wf.rp))
          ELSE /\ d' = [d EXCEPT !.i = 1, !.allBlocked = TRUE, !.lastSequence = d.sequence]
               /\ ret' = ret
               /\ pass' = NewPass
               /\ wf' = wf
    /\ UNCHANGED <<futures, links, fpanic, chans, invs, co, coroutines, sent, delivered, handed, nops, ticks, last>>

\* The coroutine that got the function of exit calls it: runtime.Goexit runs
\* the deferred functions of lines 638-644, recover() returns nil and close()
\* runs.
CoExit(c) ==
    /\ c \in DOMAIN co
    /\ co[c].pc = "exiting"
    /\ co' = [co EXCEPT ![c] = close(@)]
    /\ UNCHANGED <<futures, links, fpanic, chans, invs, coroutines, d, sent, delivered, handed, pass, ret,
                   nops, ticks, last, wf>>

\* Lines 732-740: stackTrace for every coroutine of the list.  A coroutine that
\* got the function of exit and has not closed yet does not receive: the send
\* of line 589 waits, and the coroutines behind it are not reached.
RECURSIVE TraceAll(_, _)
TraceAll(cs, q) ==
    IF q = <<>> \/ cs[Head(q)].pc = "exiting" THEN cs
    ELSE TraceAll([cs EXCEPT ![Head(q)] = stackTrace(@)], Tail(q))

\* dispatcherImpl.StackTrace, called by the host between two invocations of
\* ExecuteUntilAllBlocked.
HostStackTrace ==
    /\ d.pc = "idle"
    /\ d.calls < MaxHostCalls
    /\ d' = [d EXCEPT !.calls = @ + 1]
    /\ co' = TraceAll(co, coroutines)
    /\ last' = HostRecord("trace", 0, FALSE)
    /\ UNCHANGED <<futures, links, fpanic, chans, invs, coroutines, sent, delivered, handed, pass, ret,
                   nops, ticks, wf>>

\* The cancel callback of lines 320-327, called by the environment between two
\* decision ticks.  early is history: a request came before the root function
\* had run.
HostCancel ==
    /\ d.pc = "idle"
    /\ d.calls < MaxHostCalls
    /\ d' = [d EXCEPT !.calls = @ + 1]
    /\ wf' = [wf EXCEPT !.cancelled = @ \/ wf.cancel,
                        !.cancelRequested = TRUE,
                        !.early = @ \/ ~wf.cancel]
    /\ last' = HostRecord("cancel", 0, FALSE)
    /\ UNCHANGED <<futures, links, fpanic, chans, invs, co, coroutines, sent, delivered, handed, pass,
                   ret, nops, ticks>>

\* ----------------------------------------------------------- the system
\* newDispatcher: one root coroutine, nothing run yet.
Init ==
    /\ chans = [ch \in AllChan |-> NewChannel]
    /\ futures = [f \in Fut |-> NewFuture]
    /\ links = {}
    /\ fpanic = FALSE
    /\ invs = <<>>
    /\ co = <<newState>>
    /\ coroutines = <<1>>
    /\ d = [sequence |-> 1, executing |-> FALSE, closed |-> FALSE, mutex |-> FALSE,
            pc |-> "idle", i |-> 1, allBlocked |-> FALSE, lastSequence |-> 0, calls |-> 0,
            err |-> nil]
    /\ sent = [ch \in AllChan |-> <<>>]
    /\ delivered = [ch \in AllChan |-> <<>>]
    /\ handed = [ch \in AllChan |-> <<>>]
    /\ pass = NewPass
    /\ ret = "none"
    /\ last = NoLast
    /\ nops = 0
    /\ ticks = 0
    /\ wf = [rp |-> NoResult, complete |-> NoComplete, completes |-> 0, cancel |-> FALSE,
             cancelRequested |-> FALSE, cancelled |-> FALSE, early |-> FALSE,
             atStart |-> FALSE]

Co == 1..Len(co)

CoIds == 1..MaxCoroutines

Next ==
    \/ HostExecute
    \/ DispCall
    \/ DispAfterCall
    \/ DispPassEnd
    \/ \E c \in CoIds : CoResume(c)
    \/ \E c \in CoIds, ch \in Chan : CoSend(c, ch)
    \/ \E c \in CoIds, ch \in Chan : CoSendAsync(c, ch)
    \/ \E c \in CoIds, ch \in Chan : CoReceive(c, ch)
    \/ \E c \in CoIds, ch \in Chan : CoReceiveAsync(c, ch)
    \/ \E c \in CoIds, ch \in Chan : CoClose(c, ch)
    \/ \E c \in CoIds : CoSelect(c)
    \/ \E c \in CoIds : CoHandlerReturn(c)
    \/ \E c \in CoIds : CoSpawn(c)
    \/ \E c \in CoIds : CoReturn(c)
    \/ \E c \in CoIds : CoPanic(c)

Spec == Init /\ [][Next]_vars

\* Workflows whose coroutines use futures only.
NextFuture ==
    \/ HostExecute
    \/ DispCall
    \/ DispAfterCall
    \/ DispPassEnd
    \/ \E c \in CoIds : CoResume(c)
    \/ \E c \in CoIds, f \in Fut, res \in Results : FutSet(c, f, res)
    \/ \E c \in CoIds, f \in Fut : FutSetValue(c, f, 1)
    \/ \E c \in CoIds, f \in Fut : FutSetError(c, f, 1)
    \/ \E c \in CoIds, f \in Fut, other \in Fut : FutChain(c, f, other)
    \/ \E c \in CoIds, f \in Fut : CoGet(c, f)
    \/ \E c \in CoIds : CoSelectFuture(c)
    \/ \E c \in CoIds : CoHandlerReturn(c)
    \/ \E c \in CoIds : CoSpawn(c)
    \/ \E c \in CoIds : CoReturn(c)

SpecFuture == Init /\ [][NextFuture]_vars

\* Workflows whose host also calls ExecuteUntilAllBlocked out of turn and Close.
NextHost ==
    \/ HostExecute
    \/ HostReenter
    \/ HostClose
    \/ HostCancel
    \/ HostStackTrace
    \/ DispCall
    \/ DispAfterCall
    \/ DispPassEnd
    \/ \E c \in CoIds : CoResume(c)
    \/ \E c \in CoIds : CoExecute(c)
    \/ \E c \in CoIds : CoExit(c)
    \/ \E c \in CoIds, ch \in Chan : nops < MaxHostOps /\ CoSend(c, ch)
    \/ \E c \in CoIds, ch \in Chan : nops < MaxHostOps /\ CoReceive(c, ch)
    \/ \E c \in CoIds : nops < MaxHostOps /\ CoSpawn(c)
    \/ \E c \in CoIds : CoReturn(c)
    \/ \E c \in CoIds : nops < MaxHostOps /\ CoPanic(c)

SpecHost == Init /\ [][NextHost]_vars

\* What the code of coroutine c can do in the runs checked for termination.
UserStep(c) ==
    \/ \E ch \in Chan : nops < MaxLiveOps /\ CoSend(c, ch)
    \/ \E ch \in Chan : nops < MaxLiveOps /\ CoReceive(c, ch)
    \/ \E ch \in Chan : nops < MaxLiveOps /\ CoClose(c, ch)
    \/ nops + 2 <= MaxLiveOps /\ CoSelect(c)
    \/ CoHandlerReturn(c)
    \/ nops < MaxLiveOps /\ CoSpawn(c)
    \/ CoReturn(c)
    \/ nops < MaxLiveOps /\ CoPanic(c)

NextLive ==
    \/ HostExecute
    \/ DispCall
    \/ DispAfterCall
    \/ DispPassEnd
    \/ \E c \in CoIds : CoResume(c)
    \/ \E c \in CoIds : UserStep(c)

\* The goroutines of the coroutines and the thread inside ExecuteUntilAllBlocked
\* run when they can; the code of a coroutine goes on until it has made the
\* last of its calls and returned, or waits.  The host calls when it likes.
SpecLive ==
    /\ Init /\ [][NextLive]_vars
    /\ WF_vars(DispCall) /\ WF_vars(DispAfterCall) /\ WF_vars(DispPassEnd)
    /\ \A c \in CoIds : WF_vars(CoResume(c)) /\ WF_vars(UserStep(c))

\* ---------------------------------------------------------------- claims
Live == {coroutines[i] : i \in 1..Len(coroutines)}

Returned == d.pc = "idle" /\ ret # "none"

\* The tickets still waiting in channel ch: buffered, or of a blocked sender.
Pending(ch) ==
    {chans[ch].buffer[i] : i \in 1..Len(chans[ch].buffer)}
    \cup {chans[ch].blockedSends[i].value : i \in 1..Len(chans[ch].blockedSends)}

\* C1: on a channel used only through Send, SendAsync, Receive and
\* ReceiveAsync, values are delivered in the order their sends were issued: the
\* delivered tickets increase, and no ticket still waiting in the channel was
\* issued before a delivered one.
C1_DeliveredInSendOrder ==
    \A ch \in Chan :
        (\A k \in 1..Len(sent[ch]) : sent[ch][k] = "call") =>
            /\ \A i, j \in 1..Len(delivered[ch]) : i < j => delivered[ch][i] < delivered[ch][j]
            /\ \A i \in 1..Len(delivered[ch]) : \A p \in Pending(ch) : delivered[ch][i] < p

Min(S) == CHOOSE x \in S : \A y \in S : x <= y

\* C2: a Select with a case that can complete when Select is called invokes the
\* handler of the earliest such case, no other handler and not the default, and
\* does not yield.  (A Select that panics on a send case of a closed channel is
\* left aside: the statement here asks less than the claim.)
C2_EarliestReadyCaseFires ==
    (last.op = "select" /\ last.ready # {} /\ ~last.panic) =>
        /\ last.fired = <<Min(last.ready)>>
        /\ ~last.yielded

\* C3: a Select that ends by firing the default leaves the blocked-receiver and
\* blocked-sender queues of every channel as they were before the Select.
C3_DefaultLeavesQueues ==
    (last.op = "select" /\ last.fired = <<0>>) => Queues(chans) = last.before

\* A Select call still blocked in its loop, with closure id.
Waiting(id) == co[invs[id].co].pc # "done" /\ co[invs[id].co].op = "sel" /\ co[invs[id].co].inv = id

\* C4: a Select call that returns has invoked exactly one handler, a Select
\* that yields or panics none; once a callback of a Select has set readyBranch
\* no later event changes it, nor what it captured while the Select is blocked.
C4_OneWinner ==
    [][/\ (last'.op = "select" /\ last'.ended) => Len(last'.fired) = 1
       /\ (last'.op = "select" /\ ~last'.ended) => last'.fired = <<>>
       /\ (last'.op = "fire") => (Len(last'.fired) = 1 /\ last'.fired[1] # 0)
       /\ \A id \in DOMAIN invs :
             (invs[id].kind = "sel" /\ invs[id].latched # 0) =>
                 /\ invs'[id].latched = invs[id].latched
                 /\ (Waiting(id) /\ Waiting(id)') =>
                        (invs'[id].val = invs[id].val /\ invs'[id].more = invs[id].more)
      ]_vars

\* C4's case: a blocked Select whose readyBranch is set has refused a later event.
C4_Witness ==
    \E id \in DOMAIN invs :
        invs[id].kind = "sel" /\ invs[id].latched # 0 /\ invs[id].refused /\ Waiting(id)

\* C5 as stated: whenever ExecuteUntilAllBlocked has returned, every live
\* coroutine has keptBlocked and no coroutine was spawned during the last pass.
C5_ReturnsOnlyWhenAllBlocked ==
    Returned => (\A c \in Live : co[c].keptBlocked) /\ ~pass.spawned

\* C5 as amended: the same of a return without a panic that leaves live coroutines.
C5_NormalReturnAllBlocked ==
    (Returned /\ ret = "normal" /\ Live # {}) =>
        (\A c \in Live : co[c].keptBlocked) /\ ~pass.spawned

\* C5's case: a return without a panic that leaves more than the root behind.
C5_Witness == Returned /\ ret = "normal" /\ Live # {} /\ Len(co) > 1

\* A blocked coroutine whose blocking call would return if it were resumed.
SatisfiedWait(c) ==
    /\ co[c].pc = "waitUnblock"
    /\ co[c].op \in {"send", "recv", "get", "sel"}
    /\ invs[co[c].inv].latched # 0

\* C6: ExecuteUntilAllBlocked does not return "all blocked" at the end of a
\* pass in which a coroutine made progress, and leaves no satisfied wait.
C6_NoProgressInFinalPass ==
    (Returned /\ ret = "normal" /\ Live # {}) =>
        /\ ~pass.progress
        /\ \A c \in Live : ~SatisfiedWait(c)

SameResult(a, b) == a.value = b.value /\ a.err = b.err

Compose(R, S) == {p \in Fut \X Fut : \E m \in Fut : <<p[1], m>> \in R /\ <<m, p[2]>> \in S}

\* g is chained to f, directly or through other futures.
ChainedTo(ls) == ls \cup Compose(ls, ls) \cup Compose(Compose(ls, ls), ls)

ChainedEqual(fs, ls) ==
    \A p \in ChainedTo(ls) :
        fs[p[2]].ready => (fs[p[1]].ready /\ SameResult(fs[p[1]], fs[p[2]]))

\* C8: the result of a ready future never changes, and as long as no call on a
\* future has panicked, every future chained to a ready future, directly or
\* through others, is ready with the same value and error.
C8_SetOnceChainedEqual ==
    [][/\ \A f \in Fut : futures[f].ready =>
              (futures'[f].ready /\ SameResult(futures'[f], futures[f]))
       /\ ~fpanic' => ChainedEqual(futures', links')
      ]_vars

\* C9: after f.Chain(other) with other ready has returned, f is ready with
\* other's value and error, f's channel is closed and every future chained to f
\* is ready with the same value and error.
C9_ChainReadyIsSet ==
    (last.op = "chain" /\ last.otherReady /\ ~last.panic) =>
        LET f == futures[last.f] IN
        /\ f.ready /\ SameResult(f, futures[last.other])
        /\ chans[FutChan(last.f)].closed
        /\ \A i \in 1..Len(f.chained) :
              futures[f.chained[i]].ready /\ SameResult(futures[f.chained[i]], f)

\* C10: a Set, SetValue or SetError on a ready future panics, which ends the
\* calling coroutine, and changes no future and no future's channel.
C10_SetOnReadyPanics ==
    [][(last'.op = "set" /\ last'.wasReady) =>
          /\ last'.panic
          /\ co'[last'.co].panicError /\ co'[last'.co].closed
          /\ futures' = futures
          /\ \A f \in Fut : chans'[FutChan(f)] = chans[FutChan(f)]
      ]_vars

\* C10's case: a Set-like call on a ready future that has a chained future.
C10_Witness ==
    last.op = "set" /\ last.wasReady /\ futures[last.f].chained # <<>>

\* ------------------------------------------------------------ channel close
\* A receiver blocked in ReceiveWithMoreFlag on ch whose callback has not run.
BlockedReceiver(c, ch) ==
    /\ co[c].pc # "done" /\ co[c].op = "recv" /\ co[c].ch = ch
    /\ invs[co[c].inv].latched = 0

C12_NoSendOnClosed ==
    [][/\ (last'.op = "send" /\ last'.closed) =>
              /\ last'.panic
              /\ co'[last'.co].panicError /\ co'[last'.co].closed
              /\ chans' = chans
       /\ \A c \in Co :
             (co[c].pc = "resumed" /\ co[c].op = "send" /\ chans[co[c].ch].closed
                 /\ co'[c] # co[c]) => co'[c].panicError
       /\ (last'.op = "fire" /\ last' # last /\ last'.case.kind = "send") => last'.more
      ]_vars

\* --------------------------------------------------------- channel queues
\* C13: a channel with a blocked sender has a full buffer.
C13_BlockedSendsImplyFull ==
    \A ch \in Chan :
        chans[ch].blockedSends # <<>> => Len(chans[ch].buffer) = Size(ch)

\* C14: the buffer of a channel is never longer than the channel's capacity,
\* and a channel with a buffered value has no blocked receiver.
C14_BufferWithinCapacity ==
    \A ch \in Chan :
        /\ Len(chans[ch].buffer) <= Size(ch)
        /\ chans[ch].buffer # <<>> => chans[ch].blockedReceives = <<>>

\* C14's case: a send has buffered its value after a registered receiver, the
\* callback of a Select whose readyBranch was set, refused it.
C14_Witness ==
    /\ last.op = "send" /\ chans[last.ch].buffer # <<>>
    /\ \E id \in DOMAIN invs :
          /\ invs[id].kind = "sel" /\ invs[id].refused
          /\ \E k \in 1..Len(invs[id].cases) :
                invs[id].cases[k] = [kind |-> "recv", ch |-> last.ch]

\* ------------------------------------------------------------- dispatcher
\* C15: an invocation of ExecuteUntilAllBlocked starts to run coroutines only
\* on a dispatcher that is neither closed nor executing, the dispatcher is
\* executing exactly while an invocation is inside its loop, and a call made
\* while it is executing or closed panics, resumes no coroutine and leaves the
\* running invocation where it is.
C15_OneInvocation ==
    [][/\ (d.pc = "idle" /\ d'.pc # "idle") => (~d.closed /\ ~d.executing)
       /\ d'.executing <=> d'.pc # "idle"
       /\ (last'.op = "execute" /\ last' # last) =>
              /\ last'.executing \/ last'.closed
              /\ last'.panic
              /\ coroutines' = coroutines
              /\ d'.pc = d.pc /\ d'.i = d.i /\ d'.executing = d.executing
              /\ \A c \in Co : co'[c] # co[c] => (c = last'.by /\ co'[c].panicError)
      ]_vars

\* C15's case: a call made after an invocation and a Close has been turned
\* down.
C15_Witness ==
    last.op = "execute" /\ last.panic /\ last.closed /\ ticks = MaxTicks

\* A coroutine of the dispatcher's list that holds a captured panic.
PanickedInList(c) ==
    c \in DOMAIN co /\ co[c].panicError /\ \E i \in DOMAIN coroutines : coroutines[i] = c

\* C16: a coroutine holds a captured panic in the dispatcher's list only while
\* an invocation waits for it; the next step of that invocation returns this
\* coroutine's panic and removes the coroutine from the list, and no coroutine
\* is resumed before.  An invocation returns a panic in no other way.
C16_PanicReturned ==
    [][/\ \A c \in CoIds : PanickedInList(c) =>
              /\ d.pc = "call" /\ coroutines[d.i] = c
              /\ \A k \in CoIds : PanickedInList(k) => k = c
              /\ \A k \in DOMAIN co : co'[k].pc = "resumed" => co[k].pc = "resumed"
              /\ (d'.pc # d.pc \/ coroutines' # coroutines) =>
                     /\ d'.pc = "idle" /\ ~d'.executing
                     /\ ret' = "panic" /\ d'.err = c
                     /\ coroutines' = Remove(coroutines, d.i)
                     /\ ~PanickedInList(c)'
       /\ (ret' = "panic" /\ ret # "panic") => PanickedInList(coroutines[d.i])
      ]_vars

\* C16's case: an invocation returned the panic of a coroutine that was not the
\* last of the list, and the coroutines after it are still waiting.
C16_Witness ==
    /\ d.pc = "idle" /\ ret = "panic" /\ d.err # nil
    /\ \E i \in DOMAIN coroutines : coroutines[i] > d.err /\ co[coroutines[i]].pc = "waitUnblock"
    /\ \E i \in DOMAIN coroutines : coroutines[i] < d.err

\* ------------------------------------------------------------- root driver
\* C17: the tick that ends with ExecuteUntilAllBlocked returning a panic calls
\* Complete with an error; a tick that ends without a panic calls Complete with
\* the (result, error) in the result slot if the slot is set and makes no call
\* if it is not; Complete is called at no other moment, and the slot is set
\* only by the root function returning.
C17_RootDriver ==
    [][/\ (d.pc # "idle" /\ d'.pc = "idle") =>
              /\ (wf'.complete.kind = "error") <=> (ret' = "panic")
              /\ ret' # "panic" =>
                     /\ (wf'.complete.kind = "result") <=> wf.rp.set
                     /\ (wf'.complete.kind = "none") <=> ~wf.rp.set
                     /\ wf.rp.set => /\ wf'.complete.value = wf.rp.value
                                     /\ wf'.complete.err = wf.rp.err
       /\ (wf'.complete # wf.complete /\ wf'.complete.kind # "none") =>
              (d.pc # "idle" /\ d'.pc = "idle")
       /\ wf'.rp.set => (co'[1].closed /\ ~co'[1].panicError)
       /\ (wf.rp.set => wf'.rp = wf.rp)
      ]_vars

\* C17's case: the root function has returned its result and the tick ended
\* with the panic of another coroutine.
C17_Witness ==
    wf.complete.kind = "error" /\ wf.rp.set /\ d.pc = "idle"

\* C18: once the root function has run, a requested cancel has cancelled the
\* root context; if a request came before the root function ran, the context
\* was cancelled when the workflow function was called; the context never
\* leaves the cancelled state; and a cancel request made after another one
\* changes nothing of the workflow.
C18_CancelNeverLost ==
    [][/\ (wf'.cancelRequested /\ wf'.cancel) => wf'.cancelled
       /\ (wf'.early /\ wf'.cancel) => wf'.atStart
       /\ wf'.early => wf'.cancelRequested
       /\ wf.cancelled => wf'.cancelled
       /\ wf.cancelRequested => wf'.cancelRequested
       /\ (last'.op = "cancel" /\ last' # last) =>
              /\ wf'.cancelRequested
              /\ wf.cancel => wf'.cancelled
              /\ UNCHANGED <<chans, futures, invs, co, coroutines>>
              /\ d'.pc = d.pc /\ d'.closed = d.closed /\ d'.executing = d.executing
              /\ wf'.rp = wf.rp /\ wf'.complete = wf.complete /\ wf'.cancel = wf.cancel
              /\ wf.cancelRequested => (wf'.cancelled = wf.cancelled /\ wf'.atStart = wf.atStart)
      ]_vars

\* C18's case: two cancel requests, one of them before the root function ran,
\* and the root function has run since.
C18_Witness ==
    /\ last.op = "cancel" /\ last.n = 2
    /\ wf.early /\ wf.cancel /\ wf.atStart /\ wf.cancelled

\* The coroutines that have a step to take, and the number of the threads of
\* control, the dispatcher's loop among them, that have one.
Runnable == {c \in CoIds : c \in DOMAIN co /\ (ENABLED CoResume(c) \/ co[c].pc = "run")}

One(b) == IF b THEN 1 ELSE 0

CanRun ==
    Cardinality(Runnable)
        + One(ENABLED DispCall \/ ENABLED DispAfterCall \/ ENABLED DispPassEnd)

C20_CloseIdempotent ==
    [][/\ (last'.op = "close" /\ last' # last) =>
              /\ d'.closed
              /\ d' = [d EXCEPT !.closed = TRUE, !.calls = @ + 1]
              /\ UNCHANGED <<coroutines, chans, futures, invs, wf>>
              /\ IF last'.closed
                 THEN co' = co
                 ELSE \A c \in DOMAIN co :
                          IF ~co[c].closed /\ \E i \in DOMAIN coroutines : coroutines[i] = c
                          THEN co'[c] = [co[c] EXCEPT !.exits = 1, !.pc = "exiting"]
                          ELSE co'[c] = co[c]
       /\ \A c \in DOMAIN co :
              /\ co'[c].exits <= 1
              /\ co'[c].exits # co[c].exits => (last'.op = "close" /\ last' # last)
      ]_vars

\* C20's case: Close was called a second time while a coroutine the first one
\* had sent the function of exit to had not closed yet.
C20_Witness ==
    /\ last.op = "close" /\ last.closed
    /\ \E c \in DOMAIN co : co[c].pc = "exiting"
    /\ \E c \in DOMAIN co : co[c].pc = "done" /\ co[c].exits = 1

\* ------------------------------------------------------------------ passes
\* The coroutines the current pass has called.
VisitedSet == {pass.visited[k] : k \in DOMAIN pass.visited}

\* C21: the coroutines a pass calls are called once each and in the order of
\* their creation, which is the order of the list; while the pass is at index
\* i every coroutine of the list before i has been called in this pass, so that
\* at the end of the pass none was skipped, a coroutine spawned during the pass
\* included; and when an invocation returns normally every coroutine of the
\* list was called in its last pass.
C21_EachOncePerPass ==
    /\ \A j, k \in DOMAIN pass.visited : j < k => pass.visited[j] < pass.visited[k]
    /\ \A j, k \in DOMAIN coroutines : j < k => coroutines[j] < coroutines[k]
    /\ d.pc = "loop" =>
           \A j \in DOMAIN coroutines : j < d.i => coroutines[j] \in VisitedSet
    /\ d.pc = "call" =>
           \A j \in DOMAIN coroutines : j <= d.i => coroutines[j] \in VisitedSet
    /\ d.pc # "idle" =>
           \A c \in VisitedSet : c \in DOMAIN co /\
               (co[c].closed \/ \E j \in DOMAIN coroutines : coroutines[j] = c)
    /\ (d.pc = "idle" /\ ret = "normal") =>
           \A j \in DOMAIN coroutines : coroutines[j] \in VisitedSet

\* C21's case: a pass is at its end in which the second of three coroutines
\* completed and was removed, and the third, spawned during this pass, was
\* called after it.
C21_Witness ==
    /\ d.pc = "loop" /\ d.i > Len(coroutines) /\ pass.spawned
    /\ pass.visited = <<1, 2, 3>> /\ coroutines = <<1, 3>>

\* ----------------------------------------------------------- stack traces
\* Among coroutineState records, the fields the runtime reads.
Observable(s) == [s EXCEPT !.traces = 0]

\* C22: a call of StackTrace leaves the list of coroutines, every field of
\* every coroutine, the dispatcher, the channels, the closures of selectors and
\* the futures as they were; every coroutine of the list that waits on its
\* unblock channel is sent one function, and goes on waiting.
C22_StackTraceObserves ==
    [][(last'.op = "trace" /\ last' # last) =>
           /\ UNCHANGED <<coroutines, chans, futures, invs, wf, pass, ret>>
           /\ d' = [d EXCEPT !.calls = @ + 1]
           /\ \A c \in DOMAIN co :
                  /\ Observable(co'[c]) = Observable(co[c])
                  /\ co'[c].traces <= co[c].traces + 1
           /\ (\A c \in DOMAIN co : co[c].pc # "exiting") =>
                  \A c \in DOMAIN co :
                      co'[c].traces # co[c].traces <=>
                          (co[c].pc = "waitUnblock" /\
                           \E i \in DOMAIN coroutines : coroutines[i] = c)
      ]_vars

\* C22's case: StackTrace was called on a dispatcher with a coroutine blocked
\* in a yield and one that has not run yet, and both go on waiting.
C22_Witness ==
    /\ last.op = "trace" /\ d.pc = "idle"
    /\ \E c \in DOMAIN co : co[c].traces = 1 /\ co[c].pc = "waitUnblock" /\ co[c].op # "none"
    /\ \E c \in DOMAIN co : co[c].traces = 1 /\ co[c].pc = "waitUnblock" /\ co[c].op = "none"
                             /\ ~co[c].keptBlocked

\* ------------------------------------------------------------------ values
\* How often ticket t is in sequence q.
Count(q, t) == Cardinality({i \in DOMAIN q : q[i] = t})

\* Ticket t of channel ch was accepted by the callback of a blocked Receive or
\* of a blocked Select that has not returned yet: the call hands it over when
\* its coroutine is resumed.
InFlight(ch, t) ==
    \E c \in DOMAIN co :
        /\ co[c].op \in {"recv", "sel"}
        /\ LET r == invs[co[c].inv]
           IN /\ r.latched # 0 /\ r.val = t /\ r.more
              /\ IF co[c].op = "recv" THEN co[c].ch = ch
                 ELSE r.cases[r.latched].kind = "recv" /\ r.cases[r.latched].ch = ch

\* C23: every ticket taken out of a channel, from its buffer or from a sender,
\* has reached user code exactly once, as the result of a receive call or the
\* argument of a handler, or is held by a blocked call that will hand it over;
\* no ticket reaches user code that was not taken out, and none is both in the
\* buffer and taken out.  (A dispatcher that was closed has ended its
\* coroutines with what they held.)
C23_NoValueLost ==
    ~d.closed => \A ch \in Chan :
        /\ \A i \in DOMAIN delivered[ch] :
               \/ Count(handed[ch], delivered[ch][i]) = 1
               \/ Count(handed[ch], delivered[ch][i]) = 0 /\ InFlight(ch, delivered[ch][i])
        /\ \A i \in DOMAIN handed[ch] : Count(delivered[ch], handed[ch][i]) = 1
        /\ \A i \in DOMAIN chans[ch].buffer :
               /\ Count(delivered[ch], chans[ch].buffer[i]) = 0
               /\ Count(chans[ch].buffer, chans[ch].buffer[i]) = 1

\* -------------------------------------------------------------------- mutex
\* C24: no call of ExecuteUntilAllBlocked has ended with d.mutex locked, so that
\* the Lock of a later call of it or of Close succeeds, and d.executing is true
\* exactly while an invocation is inside its loop.
C24_MutexReleased ==
    /\ ~d.mutex
    /\ d.executing <=> d.pc # "idle"

\* ---------------------------------------------------------------- Complete
\* C25: over the decision ticks of one workflow env.Complete is called at most
\* once.
C25_CompleteAtMostOnce ==
    wf.completes <= 1

\* -------------------------------------------------------------- termination
\* A pass in which a coroutine went on into its code, completed or panicked.
Busy == pass.ran \/ pass.spawned \/ \E c \in VisitedSet : co[c].closed

\* C26: every call() of the dispatcher is answered, every invocation of
\* ExecuteUntilAllBlocked returns, and a pass that ends with no coroutine
\* having gone on into its code, completed, panicked or been spawned is the
\* last of its invocation, which returns normally.
C26_Terminates ==
    /\ (d.pc = "call") ~> (d.pc # "call")
    /\ (d.pc # "idle") ~> (d.pc = "idle")
    /\ [][(d.pc = "loop" /\ d.i > Len(coroutines) /\ d' # d /\ ~Busy) =>
              (d'.pc = "idle" /\ ret' = "normal")]_vars

\* C26's case: an invocation has returned after a pass in which every
\* coroutine it called yielded again at once, which was not its first pass.
C26_Witness ==
    /\ d.pc = "idle" /\ ret = "normal" /\ ~Busy
    /\ Len(pass.visited) >= 2
    /\ \E c \in VisitedSet : co[c].op = "sel"

====
